---- MODULE Spec2Model ----
(***************************************************************************)
(* A model of clastic/routing.py: the path-template compiler               *)
(* (BaseRoute._compile, build_converter), the matcher                      *)
(* (BaseRoute.match_path) and the binding of a Route to applications       *)
(* (Route.bind, Route._bind_args, Route.empty, Route.execute).             *)
(*                                                                         *)
(* Python strings are sequences of one-character strings, so that          *)
(* splitting, the BINDING grammar and the compiled regular expression are  *)
(* computed character by character, as the code computes them.             *)
(***************************************************************************)
EXTENDS Integers, Sequences, FiniteSets, TLC

VARIABLES
    pattern,    \* BaseRoute.pattern: the template handed to the constructor
    compiled,   \* outcome of BaseRoute.__init__ -> _compile: regex, converters or the error raised
    path,       \* the path last handed to match_path
    subst,      \* the values substituted into the template to obtain path (when it was built that way)
    result,     \* what match_path returned
    pc,         \* "new" -> "constructed" -> "matched" for the route under pattern
    apps,       \* the applications: resources, middlewares, render_factory
    heap,       \* Route objects by identity; SelfId is the route, the others are copies made by empty()
    handles,    \* per application, the object bind returned to it (0: never bound)
    last        \* outcome of the last bind/execute call

vars == <<pattern, compiled, path, subst, result, pc, apps, heap, handles, last>>

---------------------------------------------------------------------------
(* Bounds of the model *)

MaxParts == 3      \* '/'-separated parts of a generated template
MaxSegs == 2       \* '/'-prefixed segments of a generated request path
MaxTokens == 2     \* tokens substituted for one multi binding
MaxBinds == 2      \* successful binds of the route in one behaviour
MaxAppMw == 1      \* length of an application's middleware list

---------------------------------------------------------------------------
(* Characters and strings *)

Digits == {"0", "1", "2", "3", "4", "5", "6", "7", "8", "9"}

Letters == {"a", "b", "c", "d", "e", "f", "g", "h", "i", "j", "k", "l", "m",
            "n", "o", "p", "q", "r", "s", "t", "u", "v", "w", "x", "y", "z"}

\* [A-Za-z_] (the model's strings are lower case)
NameStart == Letters \cup {"_"}

\* \w
WordChars == Letters \cup Digits \cup {"_"}

\* [?+:*]
OpChars == {"?", "+", ":", "*"}

\* [\w%\d]: the character class of _PATH_SEG_TMPL after %-formatting
SegChars == WordChars \cup {"%"}

DigitVal(c) ==
    CASE c = "0" -> 0 [] c = "1" -> 1 [] c = "2" -> 2 [] c = "3" -> 3
      [] c = "4" -> 4 [] c = "5" -> 5 [] c = "6" -> 6 [] c = "7" -> 7
      [] c = "8" -> 8 [] c = "9" -> 9

\* the suffix of s from position i on
From(s, i) == SubSeq(s, i, Len(s))

\* length of the longest prefix of s made of characters of set cs
RECURSIVE SpanLen(_, _)
SpanLen(s, cs) ==
    IF s = <<>> \/ Head(s) \notin cs THEN 0 ELSE 1 + SpanLen(Tail(s), cs)

\* str.split(sep): the pieces of s between occurrences of the character sep
RECURSIVE Split(_, _)
Split(s, sep) ==
    LET n == SpanLen(s, {c \in {s[i] : i \in 1..Len(s)} : c # sep})
    IN  IF n = Len(s) THEN <<s>>
        ELSE <<SubSeq(s, 1, n)>> \o Split(From(s, n + 2), sep)

\* sep.join(parts)
RECURSIVE Join(_, _)
Join(parts, sep) ==
    IF parts = <<>> THEN <<>>
    ELSE IF Len(parts) = 1 THEN parts[1]
    ELSE parts[1] \o sep \o Join(Tail(parts), sep)

\* value.replace('/', '')
RECURSIVE StripSlashes(_)
StripSlashes(s) ==
    IF s = <<>> THEN <<>>
    ELSE IF Head(s) = "/" THEN StripSlashes(Tail(s))
    ELSE <<Head(s)>> \o StripSlashes(Tail(s))

---------------------------------------------------------------------------
(* Python values *)

PyNone == [t |-> "None", s |-> <<>>, n |-> 0, l |-> <<>>]
PyUnicode(s) == [t |-> "unicode", s |-> s, n |-> 0, l |-> <<>>]
PyInt(n) == [t |-> "int", s |-> <<>>, n |-> n, l |-> <<>>]
PyFloat(n) == [t |-> "float", s |-> <<>>, n |-> n, l |-> <<>>]
PyList(l) == [t |-> "list", s |-> <<>>, n |-> 0, l |-> l]
\* the marker for a conversion that raised ValueError
ConvError == [t |-> "ValueError", s |-> <<>>, n |-> 0, l |-> <<>>]

RECURSIVE DecimalValue(_, _)
DecimalValue(s, acc) ==
    IF s = <<>> THEN acc ELSE DecimalValue(Tail(s), 10 * acc + DigitVal(Head(s)))

\* the strings int() and float() accept among strings over SegChars: decimal digits
IsDecimal(s) == s # <<>> /\ \A i \in 1..Len(s) : s[i] \in Digits

\* TYPE_CONV_MAP: type name -> scalar converter
S_int == <<"i", "n", "t">>
S_float == <<"f", "l", "o", "a", "t">>
S_unicode == <<"u", "n", "i", "c", "o", "d", "e">>
S_str == <<"s", "t", "r">>

TYPE_CONV_MAP ==
    [x \in {S_int, S_float, S_unicode, S_str} |->
        IF x = S_int THEN "int" ELSE IF x = S_float THEN "float" ELSE "unicode"]

\* int(s), float(s), unicode(s)
ScalarConvert(converter, s) ==
    CASE converter = "int" -> IF IsDecimal(s) THEN PyInt(DecimalValue(s, 0)) ELSE ConvError
      [] converter = "float" -> IF IsDecimal(s) THEN PyFloat(DecimalValue(s, 0)) ELSE ConvError
      [] OTHER -> PyUnicode(s)

\* _OP_ARITY_MAP: whether or not an op is "multi"
OpArityKeys == {<<>>, <<"?">>, <<":">>, <<"+">>, <<"*">>}

_OP_ARITY_MAP == [op \in OpArityKeys |-> op \in {<<"+">>, <<"*">>}]

\* build_converter(converter, optional, multi): the closure, as its captured arguments
build_converter(converter, optional, multi) ==
    [converter |-> converter, optional |-> optional, multi |-> multi]

\* [converter(v) for v in tokens]
ConvertAll(converter, tokens) ==
    LET vs == [i \in 1..Len(tokens) |-> ScalarConvert(converter, tokens[i])]
    IN  IF \E i \in 1..Len(vs) : vs[i] = ConvError THEN ConvError ELSE PyList(vs)

\* calling the closure build_converter returned on a raw capture
ApplyConverter(conv, value) ==
    IF conv.multi
    THEN IF value = <<>> /\ conv.optional THEN PyList(<<>>)
         ELSE ConvertAll(conv.converter, Tail(Split(value, "/")))
    ELSE IF value = <<>> /\ conv.optional THEN PyNone
         ELSE ScalarConvert(conv.converter, StripSlashes(value))

---------------------------------------------------------------------------
(* The BINDING grammar and BaseRoute._compile *)

EmptyMap == <<>>

\* m with key k bound to v (dict item assignment)
MapSet(m, k, v) == [x \in DOMAIN m \cup {k} |-> IF x = k THEN v ELSE m[x]]

NoBinding == [matched |-> FALSE, name |-> <<>>, op |-> <<>>, type |-> <<>>]

\* BINDING.match(part): '<' name=[A-Za-z_]\w* op=[?+:*]* type=(\w+)* '>' at the start
\* of part. Every quantifier is greedy and no shorter choice can reach the '>', so the
\* groups are the maximal runs. An unmatched type group (None) is the empty string here:
\* the code only tests it with "not type_name".
BINDING(part) ==
    IF Len(part) < 2 \/ part[1] # "<" \/ part[2] \notin NameStart THEN NoBinding
    ELSE LET nlen == 1 + SpanLen(From(part, 3), WordChars)
             afterName == From(part, 2 + nlen)
             olen == SpanLen(afterName, OpChars)
             afterOp == From(afterName, olen + 1)
             tlen == SpanLen(afterOp, WordChars)
             afterType == From(afterOp, tlen + 1)
         IN  IF afterType = <<>> \/ Head(afterType) # ">" THEN NoBinding
             ELSE [matched |-> TRUE,
                   name |-> SubSeq(part, 2, 1 + nlen),
                   op |-> SubSeq(afterName, 1, olen),
                   type |-> SubSeq(afterOp, 1, tlen)]

\* The compiled regular expression is a sequence of items: a literal character, or
\* the group (?P<name>(/[\w%\d])op) that _PATH_SEG_TMPL % (name, op) denotes.
Lit(c) == [k |-> "lit", c |-> c, name |-> <<>>, op |-> <<>>]
Grp(name, op) == [k |-> "grp", c |-> "", name |-> name, op |-> op]

\* a literal part copied verbatim into the regex source (the model's literal parts
\* hold no character that is special in a regular expression)
LitItems(part) == [i \in 1..Len(part) |-> Lit(part[i])]

_PATH_SEG_TMPL(name, op) == <<Grp(name, op)>>

Raised(exc, msg) ==
    [ok |-> FALSE, exc |-> exc, msg |-> msg, regex |-> <<>>, converters |-> EmptyMap]

\* The loop body of _compile for a part BINDING matched as m: the duplicate check,
\* the type lookup (only under "if op"), the arity lookup, then the converter and
\* the group appended to the last processed element.
CompileBinding(m, processed, vcm) ==
    LET op == IF m.op = <<":">> THEN <<>> ELSE m.op
        type_name == IF m.type = <<>> THEN S_unicode ELSE m.type
    IN  IF m.name \in DOMAIN vcm
        THEN Raised("ValueError", "duplicate path binding")
        ELSE IF m.op # <<>> /\ type_name \notin DOMAIN TYPE_CONV_MAP
        THEN Raised("ValueError", "unknown type specifier")
        ELSE IF op \notin DOMAIN _OP_ARITY_MAP
        THEN Raised("ValueError", "unknown arity operator")
        ELSE IF processed = <<>>
        THEN Raised("IndexError", "list index out of range")
        ELSE LET converter == IF m.op # <<>> THEN TYPE_CONV_MAP[type_name] ELSE "unicode"
                 multi == _OP_ARITY_MAP[op]
             IN  [ok |-> TRUE, exc |-> "none", msg |-> "",
                  processed |-> [processed EXCEPT ![Len(processed)] =
                                     @ \o _PATH_SEG_TMPL(m.name, op)],
                  vcm |-> MapSet(vcm, m.name, build_converter(converter, FALSE, multi))]

\* the for loop of _compile over pattern.split('/')
RECURSIVE CompileLoop(_, _, _)
CompileLoop(parts, processed, vcm) ==
    IF parts = <<>>
    THEN [ok |-> TRUE, exc |-> "none", msg |-> "",
          regex |-> Join(processed, <<Lit("/")>>), converters |-> vcm]
    ELSE LET m == BINDING(Head(parts))
         IN  IF ~m.matched
             THEN CompileLoop(Tail(parts), Append(processed, LitItems(Head(parts))), vcm)
             ELSE LET r == CompileBinding(m, processed, vcm)
                  IN  IF r.ok THEN CompileLoop(Tail(parts), r.processed, r.vcm) ELSE r

\* BaseRoute._compile(pattern): regex is '^' + '/'.join(processed) + '$'; the anchors
\* are the matcher's (it starts at the first character and must reach the end)
_compile(pat) == CompileLoop(Split(pat, "/"), <<>>, EmptyMap)

---------------------------------------------------------------------------
(* The compiled regular expression's match and BaseRoute.match_path *)

\* how many times '/[\w%\d]' matches in a row at position pos of s
RECURSIVE UnitsAt(_, _)
UnitsAt(s, pos) ==
    IF pos + 1 <= Len(s) /\ s[pos] = "/" /\ s[pos + 1] \in SegChars
    THEN 1 + UnitsAt(s, pos + 2)
    ELSE 0

Min(a, b) == IF a < b THEN a ELSE b

RegexFail == [ok |-> FALSE, groups |-> EmptyMap]

\* regex.match(s) from item i at position pos: a backtracking match, a group's
\* repetition greedy (the most repetitions first, then fewer)
RECURSIVE MatchItems(_, _, _, _)
RECURSIVE TryReps(_, _, _, _, _, _)
MatchItems(items, i, s, pos) ==
    IF i > Len(items)
    THEN IF pos = Len(s) + 1 THEN [ok |-> TRUE, groups |-> EmptyMap] ELSE RegexFail
    ELSE IF items[i].k = "lit"
    THEN IF pos <= Len(s) /\ s[pos] = items[i].c
         THEN MatchItems(items, i + 1, s, pos + 1)
         ELSE RegexFail
    ELSE LET op == items[i].op
             avail == UnitsAt(s, pos)
             lo == IF op \in {<<>>, <<"+">>} THEN 1 ELSE 0
             hi == IF op \in {<<>>, <<"?">>} THEN Min(1, avail) ELSE avail
         IN  TryReps(items, i, s, pos, hi, lo)

TryReps(items, i, s, pos, k, lo) ==
    IF k < lo THEN RegexFail
    ELSE LET r == MatchItems(items, i + 1, s, pos + 2 * k)
         IN  IF r.ok
             THEN [ok |-> TRUE,
                   groups |-> MapSet(r.groups, items[i].name, SubSeq(s, pos, pos + 2 * k - 1))]
             ELSE TryReps(items, i, s, pos, k - 1, lo)

NoMatch == [matched |-> FALSE, ret |-> EmptyMap]

\* BaseRoute.match_path(path) of a route compiled as c
match_path(c, p) ==
    LET m == MatchItems(c.regex, 1, p, 1)
    IN  IF ~m.ok THEN NoMatch
        ELSE LET ret == [n \in DOMAIN c.converters |->
                             ApplyConverter(c.converters[n], m.groups[n])]
             IN  IF \E n \in DOMAIN ret : ret[n] = ConvError
                 THEN NoMatch
                 ELSE [matched |-> TRUE, ret |-> ret]

---------------------------------------------------------------------------
(* Templates, request paths and substituted values the model draws from *)

P_blog == <<"b", "l", "o", "g">>
P_a == <<"<", "a", ">">>
P_a_opt_int == <<"<", "a", "?", "i", "n", "t", ">">>
P_a_int == <<"<", "a", ":", "i", "n", "t", ">">>
P_a_str == <<"<", "a", ":", "s", "t", "r", ">">>
P_b_plus == <<"<", "b", "+", ">">>
P_b_star == <<"<", "b", "*", ">">>
P_a_plusplus == <<"<", "a", "+", "+", ">">>
P_a_bang_int == <<"<", "a", "!", "i", "n", "t", ">">>
P_a_opt_foo == <<"<", "a", "?", "f", "o", "o", ">">>

TemplateParts ==
    {<<>>, P_blog, P_a, P_a_opt_int, P_a_int, P_a_str, P_b_plus, P_b_star,
     P_a_plusplus, P_a_bang_int, P_a_opt_foo}

\* the templates of the module's notes and of NullRoute
T_blog_post_id ==
    <<"/", "b", "l", "o", "g", "/",
      "<", "p", "o", "s", "t", "_", "i", "d", "?", "i", "n", "t", ">">>
T_api_service_path ==
    <<"/", "a", "p", "i", "/", "<", "s", "e", "r", "v", "i", "c", "e", ">", "/",
      "<", "p", "a", "t", "h", "+", ">">>
NullRoutePattern ==
    <<"/", "<", "_", "i", "g", "n", "o", "r", "e", "d", "*", ">">>

Templates ==
    {Join(ps, <<"/">>) : ps \in UNION {[1..k -> TemplateParts] : k \in 1..MaxParts}}
        \cup {T_blog_post_id, T_api_service_path, NullRoutePattern}

Tokens == {<<"4">>, <<"x">>, <<"4", "2">>, <<"a", "b", "c">>}

PathSegs == Tokens \cup {<<>>, P_blog}

\* '' and '/s1/s2...' for up to MaxSegs segments
Paths ==
    {<<>>} \cup
    {<<"/">> \o Join(segs, <<"/">>) :
        segs \in UNION {[1..k -> PathSegs] : k \in 1..MaxSegs}}

\* the operator of the group that captures binding name n in a compiled regex
GroupOp(regex, n) ==
    LET i == CHOOSE j \in 1..Len(regex) : regex[j].k = "grp" /\ regex[j].name = n
    IN  regex[i].op

\* a binding that must be given a value: exactly-one or one-or-more
AllRequired(c) ==
    \A n \in DOMAIN c.converters : GroupOp(c.regex, n) \in {<<>>, <<"+">>}

\* the token lists that are valid values of a binding: one token for a single
\* binding, 1..MaxTokens for a multi binding, each accepted by the type converter
ValidValues(conv) ==
    {ts \in UNION {[1..k -> Tokens] : k \in 1..(IF conv.multi THEN MaxTokens ELSE 1)} :
        \A i \in 1..Len(ts) : ScalarConvert(conv.converter, ts[i]) # ConvError}

\* the segments of the template with each binding part replaced by its tokens
RECURSIVE SubstParts(_, _)
SubstParts(parts, vals) ==
    IF parts = <<>> THEN <<>>
    ELSE LET m == BINDING(Head(parts))
         IN  (IF m.matched THEN vals[m.name] ELSE <<Head(parts)>>)
                 \o SubstParts(Tail(parts), vals)

\* the literal form of template pat with vals substituted for its bindings
Substitute(pat, vals) == Join(SubstParts(Split(pat, "/"), vals), <<"/">>)

NoSubst == [used |-> FALSE, vals |-> EmptyMap]

---------------------------------------------------------------------------
(* Applications, middlewares and Route objects *)

N_db == <<"d", "b">>
N_cache == <<"c", "a", "c", "h", "e">>
N_request == <<"r", "e", "q", "u", "e", "s", "t">>
N_next == <<"n", "e", "x", "t">>
N_context == <<"c", "o", "n", "t", "e", "x", "t">>
N_application == <<"_", "a", "p", "p", "l", "i", "c", "a", "t", "i", "o", "n">>
N_route == <<"_", "r", "o", "u", "t", "e">>

RESERVED_ARGS == {N_request, N_next, N_context, N_application, N_route}

AppIds == {"A", "B"}

ResourceKeys == {N_db, N_cache}

\* the middlewares applications use, and the argument names each declares
Middlewares == {"mw_db"}

MwRequires(mw) == IF mw = "mw_db" THEN {N_db, N_request} ELSE {}

\* the identity of the only Route object that outlives a call
SelfId == 1

\* render values: None, the route's own callable render_arg, what a render factory
\* returned for an argument, the identity lambda
RenderNone == [kind |-> "None", f |-> "None", arg |-> "None"]
RenderArg == [kind |-> "render_arg", f |-> "None", arg |-> "fn"]
RenderOf(f, arg) == [kind |-> "factory", f |-> f, arg |-> arg]
RenderIdentity == [kind |-> "identity", f |-> "None", arg |-> "None"]

\* render_arg: absent, a template name (not invocable), a function (invocable)
RenderArgs == {"None", "tmpl", "fn"}

Callable(x) == x \notin {"None", "tmpl"}

NoChain == [set |-> FALSE, mws |-> <<>>, render |-> RenderNone, provided |-> {}]

\* Route.__init__ (lines 157-169). BaseRoute.__init__ takes no middlewares or
\* resources keyword, so a constructed Route's own _middlewares and _resources are empty.
NewRoute(render_arg) ==
    [_middlewares |-> <<>>,
     _resources |-> EmptyMap,
     _bound_apps |-> <<>>,
     _execute |-> NoChain,
     _render |-> IF Callable(render_arg) THEN RenderArg ELSE RenderNone,
     _render_factory |-> "None",
     render_arg |-> render_arg]

\* dict(a); .update(b)
Overlay(a, b) ==
    [k \in DOMAIN a \cup DOMAIN b |-> IF k \in DOMAIN b THEN b[k] ELSE a[k]]

\* middleware.merge_middlewares: order-preserving, the route's own first
merge_middlewares(old, new) == old \o new

\* middleware.check_middlewares / the check of make_middleware_chain: every
\* middleware's declared arguments are among the provided names
MiddlewaresSatisfied(mws, provided) ==
    \A i \in 1..Len(mws) : MwRequires(mws[i]) \subseteq provided

\* middleware.make_middleware_chain(middlewares, endpoint, render, provided)
make_middleware_chain(mws, render, provided) ==
    [set |-> TRUE, mws |-> mws, render |-> render, provided |-> provided]

\* Route.empty: a copy with its own list and dicts
empty(self) == self

\* the render chosen by _bind_args (lines 222-228)
ChooseRender(self, render_factory) ==
    IF Callable(render_factory) /\ self.render_arg # "None" /\ ~Callable(self.render_arg)
    THEN RenderOf(render_factory, self.render_arg)
    ELSE IF self._render.kind # "None"
    THEN self._render
    ELSE RenderIdentity

\* Route._bind_args(url_map, resources, middlewares, render_factory) on object self
\* whose converters have keys url_args: what it raised, and self afterwards
_bind_args(self, url_args, resources, middlewares, render_factory) ==
    LET provided == DOMAIN resources \cup RESERVED_ARGS \cup url_args
    IN  IF ~MiddlewaresSatisfied(middlewares, provided)
        THEN [raised |-> "ConfigurationError", route |-> self]
        ELSE LET render == ChooseRender(self, render_factory)
             IN  [raised |-> "none",
                  route |-> [self EXCEPT
                      !._resources = Overlay(@, resources),
                      !._middlewares = middlewares,
                      !._render_factory = render_factory,
                      !._render = render,
                      !._execute = make_middleware_chain(middlewares, render, provided)]]

\* a bind that commits into the route before the trial on the copy has passed
bind_commit_first(self, url_args, a, app, rebind_render) ==
    LET render_factory == IF rebind_render THEN app.render_factory ELSE self._render_factory
        merged_resources == Overlay(self._resources, app.resources)
        merged_mw == merge_middlewares(self._middlewares, app.middlewares)
        trial == _bind_args(empty(self), url_args, merged_resources, merged_mw, render_factory)
        touched == [self EXCEPT !._resources = merged_resources,
                                !._middlewares = merged_mw,
                                !._bound_apps = Append(@, a)]
    IN  IF trial.raised # "none"
        THEN [raised |-> trial.raised, route |-> touched, ret |-> 0]
        ELSE [raised |-> "none",
              route |-> [_bind_args(self, url_args, merged_resources, merged_mw,
                                    render_factory).route
                             EXCEPT !._bound_apps = Append(@, a)],
              ret |-> SelfId]

\* Route.bind(app, rebind_render) on the route self, app being application a:
\* what it raised, the route afterwards, the object it returned (0 when it raised)
bind(self, url_args, a, app, rebind_render) ==
    LET render_factory == IF rebind_render THEN app.render_factory ELSE self._render_factory
        merged_resources == Overlay(self._resources, app.resources)
        merged_mw == merge_middlewares(self._middlewares, app.middlewares)
        r_copy == empty(self)
        trial == _bind_args(r_copy, url_args, merged_resources, merged_mw, render_factory)
    IN  IF trial.raised # "none"
        THEN [raised |-> trial.raised, route |-> self, ret |-> 0]
        ELSE LET done == _bind_args(self, url_args, merged_resources, merged_mw, render_factory)
             IN  IF done.raised # "none"
                 THEN [raised |-> done.raised, route |-> done.route, ret |-> 0]
                 ELSE [raised |-> "none",
                       route |-> [done.route EXCEPT !._bound_apps = Append(@, a)],
                       ret |-> SelfId]

\* Route.execute(request, **kwargs) (lines 171-177): self._bound_apps[-1] is read
\* first, so an empty list raises IndexError; otherwise the chain is invoked
execute(self, kwargs) ==
    IF self._bound_apps = <<>>
    THEN [raised |-> "IndexError", application |-> "None", chain |-> NoChain, names |-> {}]
    ELSE [raised |-> "none",
          application |-> self._bound_apps[Len(self._bound_apps)],
          chain |-> self._execute,
          names |-> {N_route, N_request, N_application}
                        \cup DOMAIN self._resources \cup kwargs]

---------------------------------------------------------------------------
(* Initial states *)

NotCompiled == [ok |-> FALSE, exc |-> "none", msg |-> "", regex |-> <<>>, converters |-> EmptyMap]

NoCall ==
    [op |-> "none", app |-> "None", rebind_render |-> FALSE, raised |-> "none", ret |-> 0,
     application |-> "None", chain |-> NoChain, names |-> {}]

FactoryOf(a) == IF a = "A" THEN "factory_A" ELSE "factory_B"

\* an application before it binds routes: some resources (each its own object, named
\* after the application), no middleware yet, with or without a render factory
AppConfigs(a) ==
    {[resources |-> [k \in K |-> a], middlewares |-> <<>>, render_factory |-> f] :
        K \in SUBSET ResourceKeys, f \in {"None", FactoryOf(a)}}

\* a template about to be handed to BaseRoute.__init__
InitCompile ==
    /\ pattern \in Templates
    /\ compiled = NotCompiled
    /\ pc = "new"
    /\ path = <<>>
    /\ subst = NoSubst
    /\ result = NoMatch
    /\ apps = [a \in AppIds |-> [resources |-> EmptyMap, middlewares |-> <<>>,
                                 render_factory |-> "None"]]
    /\ heap = [i \in {SelfId} |-> NewRoute("None")]
    /\ handles = [a \in AppIds |-> 0]
    /\ last = NoCall

\* a constructed Route with one url binding, and two applications
Init ==
    /\ pattern = <<"/">> \o P_a
    /\ compiled = _compile(pattern)
    /\ pc = "constructed"
    /\ path = <<>>
    /\ subst = NoSubst
    /\ result = NoMatch
    /\ apps \in {f \in [AppIds -> UNION {AppConfigs(a) : a \in AppIds}] :
                    \A a \in AppIds : f[a] \in AppConfigs(a)}
    /\ heap \in {[i \in {SelfId} |-> NewRoute(ra)] : ra \in RenderArgs}
    /\ handles = [a \in AppIds |-> 0]
    /\ last = NoCall

---------------------------------------------------------------------------
(* Actions *)

\* BaseRoute.__init__: self.regex, self.converters = self._compile(pattern)
Construct ==
    /\ pc = "new"
    /\ compiled' = _compile(pattern)
    /\ pc' = "constructed"
    /\ UNCHANGED <<pattern, path, subst, result, apps, heap, handles, last>>

\* route.match_path(p) for a request path p
MatchPath(p) ==
    /\ pc = "constructed"
    /\ compiled.ok
    /\ path' = p
    /\ subst' = NoSubst
    /\ result' = match_path(compiled, p)
    /\ pc' = "matched"
    /\ UNCHANGED <<pattern, compiled, apps, heap, handles, last>>

\* route.match_path on the template's literal form with valid values substituted
\* for its bindings, all of them required
MatchSubstituted(vals) ==
    /\ pc = "constructed"
    /\ compiled.ok
    /\ DOMAIN compiled.converters # {}
    /\ AllRequired(compiled)
    /\ \A n \in DOMAIN vals : vals[n] \in ValidValues(compiled.converters[n])
    /\ path' = Substitute(pattern, vals)
    /\ subst' = [used |-> TRUE, vals |-> vals]
    /\ result' = match_path(compiled, path')
    /\ pc' = "matched"
    /\ UNCHANGED <<pattern, compiled, apps, heap, handles, last>>

\* route.bind(apps[a], rebind_render)
Bind(a, rebind_render) ==
    /\ pc = "constructed"
    /\ compiled.ok
    /\ Len(heap[SelfId]._bound_apps) < MaxBinds
    /\ LET r == bind(heap[SelfId], DOMAIN compiled.converters, a, apps[a], rebind_render)
       IN  /\ heap' = [heap EXCEPT ![SelfId] = r.route]
           /\ handles' = IF r.raised = "none" THEN [handles EXCEPT ![a] = r.ret] ELSE handles
           /\ last' = [NoCall EXCEPT !.op = "bind", !.app = a,
                                     !.rebind_render = rebind_render,
                                     !.raised = r.raised, !.ret = r.ret]
    /\ UNCHANGED <<pattern, compiled, path, subst, result, pc, apps>>

\* route.execute(request, **kwargs) with the url bindings as kwargs
Execute ==
    /\ pc = "constructed"
    /\ compiled.ok
    /\ LET r == execute(heap[SelfId], DOMAIN compiled.converters)
       IN  last' = [NoCall EXCEPT !.op = "execute", !.raised = r.raised,
                                  !.application = r.application,
                                  !.chain = r.chain, !.names = r.names]
    /\ UNCHANGED <<pattern, compiled, path, subst, result, pc, apps, heap, handles>>

\* application code appends to its own middleware list
AppendMiddleware(a, mw) ==
    /\ Len(apps[a].middlewares) < MaxAppMw
    /\ apps' = [apps EXCEPT ![a].middlewares = Append(@, mw)]
    /\ UNCHANGED <<pattern, compiled, path, subst, result, pc, heap, handles, last>>

TokenLists == UNION {[1..k -> Tokens] : k \in 1..MaxTokens}

NextCompile == Construct

NextMatch ==
    \/ Construct
    \/ \E p \in Paths : MatchPath(p)
    \/ \E vals \in [DOMAIN compiled.converters -> TokenLists] : MatchSubstituted(vals)

Next ==
    \/ \E a \in AppIds, rebind_render \in BOOLEAN : Bind(a, rebind_render)
    \/ Execute
    \/ \E a \in AppIds, mw \in Middlewares : AppendMiddleware(a, mw)

\* route construction alone
SpecCompile == InitCompile /\ [][NextCompile]_vars

\* route construction, then one match_path
SpecMatch == InitCompile /\ [][NextMatch]_vars

\* a constructed route bound to and executed for applications
Spec == Init /\ [][Next]_vars

---------------------------------------------------------------------------
(* Properties *)

Parts(pat) == Split(pat, "/")

Last(q) == q[Len(q)]

\* the step is a successful bind of the route to application b
BindSucceeds(b) ==
    /\ last'.op = "bind" /\ last'.app = b /\ last'.raised = "none"
    /\ Len(heap'[SelfId]._bound_apps) = Len(heap[SelfId]._bound_apps) + 1

\* what an application sees through the Bound Route bind gave it
View(h, id) ==
    [chain |-> h[id]._execute, resources |-> h[id]._resources,
     middlewares |-> h[id]._middlewares, application |-> Last(h[id]._bound_apps)]

\* C1: when a route bound to application a is then bound to a different application
\* b (other resources, other middlewares), b gets a Bound Route distinct from a's, and
\* the chain, resources, middlewares and owning application seen through a's Bound
\* Route stay as they were; a later change of an application's middleware list
\* changes no bound chain.
C1_BoundRoutesIndependent ==
    [][/\ \A a, b \in AppIds :
              (/\ a # b
               /\ handles[a] # 0
               /\ apps[a].resources # apps[b].resources
               /\ apps[a].middlewares # apps[b].middlewares
               /\ BindSucceeds(b))
              => /\ handles'[b] # handles'[a]
                 /\ View(heap', handles'[a]) = View(heap, handles[a])
       /\ apps' # apps => \A i \in DOMAIN heap : heap'[i]._execute = heap[i]._execute
      ]_vars

\* C2: a bind that raises leaves the route as it was before the call (resources,
\* middlewares, render factory, render, chain, bound applications, and the Bound
\* Routes handed out), and a route bound before the failing bind still executes with
\* the chain and owning application it had.
C2_FailedBindLeavesRoute ==
    [][/\ (last'.op = "bind" /\ last'.raised # "none")
              => (heap' = heap /\ handles' = handles)
       /\ (/\ last.op = "bind" /\ last.raised # "none"
           /\ heap[SelfId]._bound_apps # <<>>
           /\ last'.op = "execute")
              => /\ last'.raised = "none"
                 /\ last'.chain = heap[SelfId]._execute
                 /\ last'.application = Last(heap[SelfId]._bound_apps)
      ]_vars

\* a bind has just failed on a route that an earlier bind had bound
C2_Witness ==
    /\ last.op = "bind"
    /\ last.raised = "ConfigurationError"
    /\ heap[SelfId]._bound_apps # <<>>
    /\ heap[SelfId]._execute.set

\* the mapping the substituted values convert to
ExpectedValues(convs, vals) ==
    [n \in DOMAIN convs |->
        IF convs[n].multi
        THEN PyList([i \in 1..Len(vals[n]) |-> ScalarConvert(convs[n].converter, vals[n][i])])
        ELSE ScalarConvert(convs[n].converter, vals[n][1])]

\* C3: matching the literal form of a valid template, valid values substituted for
\* its required bindings, succeeds and binds each name to the converted value of what
\* was substituted (a list in path order for a multi binding).
C3_SubstitutedTemplateMatches ==
    (pc = "matched" /\ subst.used)
        => /\ result.matched
           /\ result.ret = ExpectedValues(compiled.converters, subst.vals)

\* the template is literal parts followed by one last zero-or-one binding of a known type
EndsInOptional(pat) ==
    LET ps == Parts(pat)
        m == BINDING(Last(ps))
    IN  /\ Len(ps) >= 2
        /\ \A i \in 1..(Len(ps) - 1) : ~BINDING(ps[i]).matched
        /\ m.matched /\ m.op = <<"?">>
        /\ (m.type = <<>> \/ m.type \in DOMAIN TYPE_CONV_MAP)

\* C4: for a template ending in a zero-or-one binding, a path that omits the segment
\* (with or without the trailing '/') matches and binds None; a path that gives a
\* value the converter accepts matches and binds the converted value; a path that
\* gives a value the converter rejects does not match.
C4_ZeroOrOneBinding ==
    (pc = "matched" /\ ~subst.used /\ EndsInOptional(pattern))
        => LET ps == Parts(pattern)
               m == BINDING(Last(ps))
               prefix == Join(SubSeq(ps, 1, Len(ps) - 1), <<"/">>)
               conv == IF m.type = <<>> THEN "unicode" ELSE TYPE_CONV_MAP[m.type]
               Bound(v) == [matched |-> TRUE, ret |-> [n \in {m.name} |-> v]]
           IN  /\ path \in {prefix, prefix \o <<"/">>} => result = Bound(PyNone)
               /\ \A tok \in Tokens :
                      path = prefix \o <<"/">> \o tok
                          => result = IF ScalarConvert(conv, tok) # ConvError
                                      THEN Bound(ScalarConvert(conv, tok))
                                      ELSE NoMatch

\* C5: execute on a route that was never bound fails with InvalidEndpoint.
C5_ExecuteUnboundInvalidEndpoint ==
    (last.op = "execute" /\ heap[SelfId]._bound_apps = <<>>)
        => last.raised = "InvalidEndpoint"

\* C6: the NullRoute's pattern matches every path.
C6_NullRouteMatchesEveryPath ==
    (pc = "matched" /\ pattern = NullRoutePattern) => result.matched

\* the index of the first part whose binding name an earlier part already bound (0: none)
SecondOccurrence(ps) ==
    LET dup == {j \in 1..Len(ps) :
                   /\ BINDING(ps[j]).matched
                   /\ \E i \in 1..(j - 1) :
                          BINDING(ps[i]).matched /\ BINDING(ps[i]).name = BINDING(ps[j]).name}
    IN  IF dup = {} THEN 0 ELSE CHOOSE j \in dup : \A k \in dup : j <= k

\* C7: a template with the same binding name in two segments raises ValueError
\* 'duplicate path binding' at construction, and no regex or converter mapping is
\* produced.
C7_DuplicateRaisesDuplicateError ==
    (pc = "constructed" /\ SecondOccurrence(Parts(pattern)) # 0)
        => /\ ~compiled.ok
           /\ compiled.exc = "ValueError" /\ compiled.msg = "duplicate path binding"
           /\ compiled.regex = <<>> /\ compiled.converters = EmptyMap

\* the characters of the model that are neither word characters nor '<', '>', '/'
SymbolChars == OpChars \cup {"!"}

\* part is a binding token '<' name symbols type '>' whose symbols are not a valid
\* operator (more than one operator character, or a symbol that is no operator)
BadOperatorToken(part) ==
    /\ Len(part) >= 3 /\ part[1] = "<" /\ part[2] \in NameStart
    /\ LET nlen == 1 + SpanLen(From(part, 3), WordChars)
           afterName == From(part, 2 + nlen)
           olen == SpanLen(afterName, SymbolChars)
           afterOp == From(afterName, olen + 1)
           tlen == SpanLen(afterOp, WordChars)
       IN  /\ From(afterOp, tlen + 1) = <<">">>
           /\ SubSeq(afterName, 1, olen) \notin OpArityKeys

\* C8: a template with a binding token whose operator part is not empty or exactly
\* one of ? + : * is rejected at construction.
C8_BadOperatorRejected ==
    (pc = "constructed" /\ \E i \in 1..Len(Parts(pattern)) : BadOperatorToken(Parts(pattern)[i]))
        => ~compiled.ok

\* C9: after a successful bind(app) the route's resources are its construction-time
\* resources overlaid with app's, whatever was bound before.
C9_ResourcesOfLastBindOnly ==
    (last.op = "bind" /\ last.raised = "none")
        => heap[SelfId]._resources =
               Overlay(NewRoute(heap[SelfId].render_arg)._resources, apps[last.app].resources)

\* C10: after a successful bind, render is the factory in scope (kept in
\* _render_factory) applied to a present, non-invocable render_arg; else render_arg
\* itself when it is invocable; else the identity.
C10_RenderRule ==
    (last.op = "bind" /\ last.raised = "none")
        => LET r == heap[SelfId]
           IN  r._render =
                   IF Callable(r._render_factory) /\ r.render_arg # "None"
                          /\ ~Callable(r.render_arg)
                   THEN RenderOf(r._render_factory, r.render_arg)
                   ELSE IF Callable(r.render_arg) THEN RenderArg
                   ELSE RenderIdentity

====
